---- MODULE Spec2Model ----
(***************************************************************************)
(* Model of the syntax-tree node of src/lib/js/Node.py (class Node, a      *)
(* subclass of list).  The source is Python 2 (it defines __nonzero__ and  *)
(* names long, basestring, unicode), so the model follows Python 2:        *)
(*   - a Node is always truthy (__nonzero__), None and 0 are falsy;        *)
(*   - None orders below every integer under <;                            *)
(*   - list.index and the `in` operator find an element by identity OR by  *)
(*     list equality, and Node inherits list equality: two nodes are equal *)
(*     when their child sequences are elementwise equal;                   *)
(*   - dir() enumerates attribute names in ascending (sorted) order.       *)
(*                                                                         *)
(* Encoding.  Node objects are the identities in Nodes.  Other Python      *)
(* values are encoded as integers outside Nodes: None, the number 0 (Zero),*)
(* a truthy non-node value (Str) and "attribute not present" (Absent).     *)
(* Relation names are the integers of RelNames, numbered in the order in   *)
(* which dir() lists them; RelTag gives their text.                        *)
(* Scalar attributes (line) are not rendered: a tag carries only the type. *)
(* Trees with a cycle (on which Python's recursion does not terminate) are *)
(* kept out by the guards of append and replace.                           *)
(***************************************************************************)
EXTENDS Integers, Sequences, FiniteSets, TLC

VARIABLES tok, start, end, parent, rel, children, relations, last, ret, steps

vars == <<tok, start, end, parent, rel, children, relations, last, ret, steps>>
tree == <<tok, start, end, parent, rel, children, relations>>

\* ---- bounds ----
MaxPos == 1      \* token offsets are 0..MaxPos
MaxOps == 3      \* number of append/replace calls in a run

\* ---- values ----
Nodes == {1, 2, 3}
Parents == {1, 2}          \* the nodes append and replace are called on
RelNames == {1, 2}
RelTag == <<"left", "right">>
TypeOf == <<"A", "B", "C">>
None == -1
Absent == -2
Str == -3
Zero == 0

Positions == 0 .. MaxPos
Kid == Nodes \cup {None, Zero, Str}
RelArg == RelNames \cup {None}

\* bool(v): Node.__nonzero__ returns True; None and 0 are falsy
Truthy(v) == v \in Nodes \/ v = Str

\* isinstance(v, Node)
IsNode(v) == v \in Nodes

\* hasattr(v, "rel"): only a node can carry the marker
HasRel(v) == IsNode(v) /\ rel[v] # Absent

\* hasattr(v, "tokenizer")
HasTokenizer(v) == IsNode(v) /\ tok[v]

\* a < b in Python 2, for None and integers: None is below every integer
PyLess(a, b) == IF a = None THEN b # None ELSE IF b = None THEN FALSE ELSE a < b

\* ---- construction ----
\* The (tokenizer, start, end) a constructor call leaves on the node.
Seeds ==
    {[tok |-> FALSE, start |-> Absent, end |-> Absent],
     [tok |-> TRUE, start |-> None, end |-> None]}
    \cup {[tok |-> TRUE, start |-> s, end |-> e] : s \in Positions, e \in Positions}

\* a token's span: start <= end
TokenSeeds == {sd \in Seeds : sd.start \in Positions /\ sd.start <= sd.end}

\* one tokenizer is shared by a whole tree: either no node has one, or every
\* node was built at a token (the seeds of Spec; SpecAppend draws every mix)
TreeSeeds ==
    {[Nodes -> {sd \in Seeds : ~sd.tok}],
     [Nodes -> {sd \in Seeds : sd.start = 0 /\ sd.end = MaxPos}]}

\* every mix of nodes without tokenizer, without active token, and at a token
SpanSeeds == {[Nodes -> {sd \in Seeds : sd.start \notin Positions} \cup TokenSeeds]}

Created(S) ==
    /\ \E F \in S : \E f \in F :
          /\ tok = [n \in Nodes |-> f[n].tok]
          /\ start = [n \in Nodes |-> f[n].start]
          /\ end = [n \in Nodes |-> f[n].end]
    /\ parent = [n \in Nodes |-> Absent]
    /\ rel = [n \in Nodes |-> Absent]
    /\ children = [n \in Nodes |-> <<>>]
    /\ relations = [n \in Nodes |-> [r \in RelNames |-> Absent]]
    /\ last = [op |-> "create", self |-> None, a |-> None, b |-> None, raised |-> FALSE]
    /\ ret = None
    /\ steps = 0

Init == Created(TreeSeeds)

InitSpan == Created(SpanSeeds)

\* A run is a sequence of append/replace calls followed by at most one
\* read-only call: the read-only calls leave the tree as it is.
Building == last.op \in {"create", "append", "replace"}

\* ---- structure helpers ----
\* the node-valued entries a node refers to, by position or by relation name
Refs(n) ==
    ({children[n][i] : i \in 1 .. Len(children[n])}
        \cup {relations[n][r] : r \in RelNames}) \cap Nodes

RECURSIVE ReachFrom(_)
ReachFrom(S) ==
    LET T == S \cup UNION {Refs(n) : n \in S}
    IN  IF T = S THEN S ELSE ReachFrom(T)

\* a == b in Python for the encoded values: identity first, then list
\* equality of two nodes (Node inherits list.__eq__)
RECURSIVE PyEq(_, _)
PyEq(a, b) ==
    \/ a = b
    \/ /\ IsNode(a) /\ IsNode(b)
       /\ Len(children[a]) = Len(children[b])
       /\ \A i \in 1 .. Len(children[a]) : PyEq(children[a][i], children[b][i])

\* list.index(x): the first position whose element is x or equals x; 0 when
\* there is none (Python raises ValueError)
IndexOf(seq, x) ==
    LET hits == {i \in 1 .. Len(seq) : PyEq(seq[i], x)}
    IN  IF hits = {} THEN 0 ELSE CHOOSE i \in hits : \A j \in hits : i <= j

\* x in seq
PyIn(x, seq) == \E i \in 1 .. Len(seq) : PyEq(seq[i], x)

\* ---- append ----
\* append raises: "Invalid kid" for a truthy non-node, or AttributeError when
\* the kid has a tokenizer and self has no start/end attribute to compare with
AppendRaises(self, kid) ==
    /\ Truthy(kid)
    /\ \/ ~IsNode(kid)
       \/ HasTokenizer(kid) /\ ~tok[self]

\* self.start after `if kid.start < self.start: self.start = kid.start`
SpanStart(self, kid) ==
    IF HasTokenizer(kid) /\ PyLess(start[kid], start[self]) THEN start[kid] ELSE start[self]

\* self.end after `if self.end < kid.end: self.end = kid.end`
SpanEnd(self, kid) ==
    IF HasTokenizer(kid) /\ PyLess(end[self], end[kid]) THEN end[kid] ELSE end[self]

\* the block of related empty kids left out
BlockedEmpty_Never(kid, r) == FALSE

\* `if not kid and rel: return` (a relation name is a non-empty string)
BlockedEmpty(kid, r) == ~Truthy(kid) /\ r # None

\* `if rel != None` inside the truthy branch
Relates(kid, r) == Truthy(kid) /\ r # None

append(self, kid, r) ==
    /\ Building
    /\ steps < MaxOps
    /\ steps' = steps + 1
    /\ IsNode(kid) => self \notin ReachFrom({kid})
    /\ last' = [op |-> "append", self |-> self, a |-> kid, b |-> r,
                raised |-> AppendRaises(self, kid)]
    /\ ret' = None
    /\ IF AppendRaises(self, kid) \/ BlockedEmpty(kid, r)
       THEN UNCHANGED tree
       ELSE /\ start' = [start EXCEPT ![self] = SpanStart(self, kid)]
            /\ end' = [end EXCEPT ![self] = SpanEnd(self, kid)]
            /\ parent' = IF Truthy(kid) THEN [parent EXCEPT ![kid] = self] ELSE parent
            /\ relations' = IF Relates(kid, r)
                            THEN [relations EXCEPT ![self][r] = kid] ELSE relations
            /\ rel' = IF Relates(kid, r) THEN [rel EXCEPT ![kid] = r] ELSE rel
            /\ children' = [children EXCEPT ![self] = Append(@, kid)]
            /\ UNCHANGED tok

\* ---- replace ----
\* `repl.rel = kid.rel` raises AttributeError on None, after the substitution
ReplaceRaises(self, kid, repl) ==
    \/ IndexOf(children[self], kid) = 0
    \/ HasRel(kid) /\ ~IsNode(repl)

\* self[self.index(kid)] = repl
Substitute(self, kid, repl) ==
    IF IndexOf(children[self], kid) = 0 THEN children[self]
    ELSE [children[self] EXCEPT ![IndexOf(children[self], kid)] = repl]

\* the relation transfer: repl.rel = kid.rel; setattr(self, kid.rel, repl)
Transfers(self, kid, repl) ==
    IndexOf(children[self], kid) # 0 /\ HasRel(kid) /\ IsNode(repl)

replace(self, kid, repl) ==
    /\ Building
    /\ steps < MaxOps
    /\ steps' = steps + 1
    /\ IsNode(repl) => self \notin ReachFrom({repl})
    /\ last' = [op |-> "replace", self |-> self, a |-> kid, b |-> repl,
                raised |-> ReplaceRaises(self, kid, repl)]
    /\ ret' = IF ReplaceRaises(self, kid, repl) THEN None ELSE kid
    /\ IF IndexOf(children[self], kid) = 0
       THEN UNCHANGED tree
       ELSE /\ children' = [children EXCEPT ![self] = Substitute(self, kid, repl)]
            /\ rel' = IF Transfers(self, kid, repl)
                      THEN [rel EXCEPT ![repl] = rel[kid]]
                      ELSE rel
            /\ relations' = IF Transfers(self, kid, repl)
                            THEN [relations EXCEPT ![self][rel[kid]] = repl]
                            ELSE relations
            /\ UNCHANGED <<tok, start, end, parent>>

\* ---- child enumeration ----
\* hasattr(child, "rel") is False: the entries that count as unrelated
Unrelated(c) == ~HasRel(c)

UnrelatedChildren(n) == SelectSeq(children[n], Unrelated)

ChildrenLength(n, filter) ==
    Cardinality({i \in 1 .. Len(children[n]) : ~filter \/ Unrelated(children[n][i])})

getUnrelatedChildren(self) ==
    /\ Building
    /\ last' = [op |-> "getUnrelatedChildren", self |-> self, a |-> None, b |-> None,
                raised |-> FALSE]
    /\ ret' = UnrelatedChildren(self)
    /\ UNCHANGED <<tree, steps>>

getChildrenLength(self, filter) ==
    /\ Building
    /\ last' = [op |-> "getChildrenLength", self |-> self,
                a |-> IF filter THEN 1 ELSE 0, b |-> None, raised |-> FALSE]
    /\ ret' = ChildrenLength(self, filter)
    /\ UNCHANGED <<tree, steps>>

\* ---- toXml ----
MaxRelName == CHOOSE r \in RelNames : \A q \in RelNames : q <= r

\* relatedChildren: for name in dir(self), in ascending name order, the
\* attribute values that are nodes carrying a relation marker
RECURSIVE RelatedFrom(_, _)
RelatedFrom(n, r) ==
    IF r > MaxRelName THEN <<>>
    ELSE (IF r \in RelNames /\ HasRel(relations[n][r]) THEN <<relations[n][r]>> ELSE <<>>)
         \o RelatedFrom(n, r + 1)

\* related children collected in sequence order instead of name order
RelatedChildren_InSequence(n) == SelectSeq(children[n], HasRel)

RelatedChildren(n) == RelatedFrom(n, 1)

\* `len(self) == 0 and len(relatedChildren) == 0` (no comments are attached)
SelfClosing(n) == Len(children[n]) = 0 /\ Len(RelatedChildren(n)) = 0

\* `elif not child in relatedChildren: raise`
Irritated(n, child) == HasRel(child) /\ ~PyIn(child, RelatedChildren(n))

Raise == [ok |-> FALSE, out |-> <<>>]

Then(x, y) == IF x.ok /\ y.ok THEN [ok |-> TRUE, out |-> x.out \o y.out] ELSE Raise

Emit(tag, name) == [ok |-> TRUE, out |-> <<<<tag, name>>>>]

RECURSIVE XmlOf(_)
RECURSIVE XmlChildren(_, _)
RECURSIVE XmlRelated(_, _)

\* the `for child in self` loop, from position i on
XmlChildren(n, i) ==
    IF i > Len(children[n]) THEN [ok |-> TRUE, out |-> <<>>]
    ELSE LET child == children[n][i]
             one == IF ~Truthy(child) THEN Emit("none", "")
                    ELSE IF ~HasRel(child) THEN XmlOf(child)
                    ELSE IF Irritated(n, child) THEN Raise
                    ELSE [ok |-> TRUE, out |-> <<>>]
         IN  IF one.ok THEN Then(one, XmlChildren(n, i + 1)) ELSE Raise

\* the `for child in relatedChildren` loop over the remaining sequence
XmlRelated(n, seq) ==
    IF seq = <<>> THEN [ok |-> TRUE, out |-> <<>>]
    ELSE LET child == Head(seq)
             block == Then(Emit("relopen", RelTag[rel[child]]),
                           Then(XmlOf(child), Emit("relclose", RelTag[rel[child]])))
         IN  IF block.ok THEN Then(block, XmlRelated(n, Tail(seq))) ELSE Raise

XmlOf(n) ==
    IF SelfClosing(n) THEN Emit("selfclose", TypeOf[n])
    ELSE Then(Emit("open", TypeOf[n]),
              Then(XmlChildren(n, 1),
                   Then(XmlRelated(n, RelatedChildren(n)), Emit("close", TypeOf[n]))))

toXml(self) ==
    /\ Building
    /\ last' = [op |-> "toXml", self |-> self, a |-> None, b |-> None,
                raised |-> ~XmlOf(self).ok]
    /\ ret' = IF XmlOf(self).ok THEN XmlOf(self).out ELSE None
    /\ UNCHANGED <<tree, steps>>

\* ---- export ----
\* the attribute names of a node whose value is a node carrying a marker
ExportedRels(n) == {r \in RelNames : HasRel(relations[n][r])}

\* child.export() on an entry that is not a node raises AttributeError
ExportChildRaises(c) == Unrelated(c) /\ ~IsNode(c)

RECURSIVE ExportOf(_)
ExportOf(n) ==
    LET kids == UnrelatedChildren(n)
        ok == /\ \A r \in ExportedRels(n) : ExportOf(relations[n][r]).ok
              /\ \A i \in 1 .. Len(kids) :
                    ~ExportChildRaises(kids[i]) /\ ExportOf(kids[i]).ok
    IN  IF ~ok THEN [ok |-> FALSE, val |-> None]
        ELSE [ok |-> TRUE,
              val |-> [type |-> TypeOf[n],
                       rels |-> [r \in ExportedRels(n) |-> ExportOf(relations[n][r]).val],
                       hasChildren |-> kids # <<>>,
                       children |-> [i \in 1 .. Len(kids) |-> ExportOf(kids[i]).val]]]

export(self) ==
    /\ Building
    /\ last' = [op |-> "export", self |-> self, a |-> None, b |-> None,
                raised |-> ~ExportOf(self).ok]
    /\ ret' = ExportOf(self).val
    /\ UNCHANGED <<tree, steps>>

Next ==
    \/ \E self \in Parents, kid \in Kid, r \in RelArg : append(self, kid, r)
    \/ \E self \in Parents, kid \in Nodes, repl \in Nodes \cup {None} : replace(self, kid, repl)
    \/ \E self \in Nodes : getUnrelatedChildren(self)
    \/ \E self \in Nodes, filter \in BOOLEAN : getChildrenLength(self, filter)
    \/ \E self \in Nodes : toXml(self)
    \/ \E self \in Nodes : export(self)

Spec == Init /\ [][Next]_vars

\* construction followed by append calls only, over every mix of seeds
NextAppend == \E self \in Parents, kid \in Kid, r \in RelArg : append(self, kid, r)

SpecAppend == InitSpan /\ [][NextAppend]_vars

\* ======================= properties =======================
IsSet(x) == x \in Positions

Min(x, y) == IF x <= y THEN x ELSE y
Max(x, y) == IF x >= y THEN x ELSE y

\* the step just taken was the call op on self
Called(op) == last'.op = op

\* ---- C1: helpers ----
C1_SpanOrdered ==
    \A n \in Nodes : (IsSet(start[n]) /\ IsSet(end[n])) => start[n] <= end[n]

C1_TightStart(n, kid) ==
    IF ~(HasTokenizer(kid) /\ IsSet(start[kid])) THEN start[n]
    ELSE IF IsSet(start[n]) THEN Min(start[n], start[kid]) ELSE start[kid]

C1_TightEnd(n, kid) ==
    IF ~(HasTokenizer(kid) /\ IsSet(end[kid])) THEN end[n]
    ELSE IF IsSet(end[n]) THEN Max(end[n], end[kid]) ELSE end[kid]

C1_AppendStep ==
    (Called("append") /\ IsNode(last'.a) /\ tok[last'.self]) =>
        /\ ~last'.raised
        /\ start'[last'.self] = C1_TightStart(last'.self, last'.a)
        /\ end'[last'.self] = C1_TightEnd(last'.self, last'.a)

\* C1 (as claimed): Span invariant of append.  In every state start <= end
\* whenever both are set, and every append of a node kid to a node n that has
\* a source context leaves n.start / n.end at the minimum start / maximum end
\* of n's previous span and the kid's span: an unset bound of n adopts the
\* kid's value, and a kid whose bound is unset (or that has no source
\* context) leaves n's bound as it was.
C1_SpanInvariant == [][C1_AppendStep]_vars /\ []C1_SpanOrdered

\* ---- C2: helpers ----
C2_OnlyParent(n) == \A m \in Nodes \ {n} : children[m] = <<>>

C2_Occurrences(n, c) == Cardinality({i \in 1 .. Len(children[n]) : children[n][i] = c})

\* C2 (as claimed): Relation bookkeeping of append.  While all appends were
\* made on one node n: every child of n whose marker is r is the node
\* n.relations[r], a child appended under a relation appears exactly once in
\* n.children, and at most one relation name of n maps to a given child.
C2_RelationBookkeeping ==
    \A n \in Nodes : C2_OnlyParent(n) =>
        /\ \A i \in 1 .. Len(children[n]) :
              HasRel(children[n][i]) =>
                  relations[n][rel[children[n][i]]] = children[n][i]
        /\ \A c \in Nodes :
              (HasRel(c) /\ C2_Occurrences(n, c) > 0) => C2_Occurrences(n, c) = 1
        /\ \A c \in Nodes :
              Cardinality({r \in RelNames : relations[n][r] = c}) <= 1

\* ---- C3: helpers ----
C3_HeldAt(n, old) ==
    CHOOSE i \in 1 .. Len(children[n]) :
        /\ children[n][i] = old
        /\ \A j \in 1 .. Len(children[n]) : children[n][j] = old => i <= j

C3_Present(n, old) == \E i \in 1 .. Len(children[n]) : children[n][i] = old

C3_Case ==
    /\ Called("replace")
    /\ C3_Present(last'.self, last'.a)
    /\ IsNode(last'.b) /\ last'.b # last'.a

C3_Position ==
    C3_Case =>
        /\ ~last'.raised
        /\ ret' = last'.a
        /\ children' = [children EXCEPT ![last'.self] =
                            [@ EXCEPT ![C3_HeldAt(last'.self, last'.a)] = last'.b]]

C3_Relation ==
    (C3_Case /\ HasRel(last'.a)) =>
        /\ relations'[last'.self][rel[last'.a]] = last'.b
        /\ rel'[last'.b] = rel[last'.a]
        /\ rel'[last'.a] = Absent

\* C3 (as claimed): replace(old, new), with old itself an element of
\* n.children and new a node other than old, puts new at the index old held,
\* leaves the other positions alone and returns old; if old was related under
\* r then afterwards n.relations[r] is new, new's marker is r and old's marker
\* is cleared.
C3_Replace == [][C3_Position /\ C3_Relation]_vars

\* the positional part of C3 alone
C3_ReplaceKeepsPosition == [][C3_Position]_vars

\* ---- C4: helpers ----
C4_EmptyStep ==
    (Called("append") /\ last'.a = None) =>
        /\ ~last'.raised
        /\ IF last'.b # None
           THEN UNCHANGED tree
           ELSE /\ children' = [children EXCEPT ![last'.self] = Append(@, None)]
                /\ UNCHANGED <<tok, start, end, parent, rel, relations>>

C4_SlotsThenChild(n, k) ==
    /\ Len(children[n]) = k + 1
    /\ \A i \in 1 .. k : children[n][i] = None
    /\ IsNode(children[n][k + 1]) /\ ~HasRel(children[n][k + 1])

C4_Count ==
    (last.op = "getChildrenLength" /\ last.a = 1) =>
        \A k \in 0 .. MaxOps : C4_SlotsThenChild(last.self, k) => ret = k + 1

\* C4: Appending an empty slot.  append(None, r) with a relation name r
\* changes nothing of the tree; append(None) appends exactly one empty slot at
\* the end of n.children and changes nothing else; and when n.children is k
\* empty slots followed by one real unrelated child, getChildrenLength(True)
\* returns k + 1.
C4_AppendEmpty == [][C4_EmptyStep]_vars /\ []C4_Count

\* C4 witness: an empty slot was appended, then a related empty slot was refused
C4_Witness ==
    /\ last.op = "append" /\ last.a = None /\ last.b # None /\ ~last.raised
    /\ children[last.self] = <<None>>
    /\ steps = 2

\* ---- C5: helpers ----
C5_AbsentStep ==
    (Called("replace") /\ ~C3_Present(last'.self, last'.a)) =>
        /\ last'.raised
        /\ UNCHANGED tree

\* C5 (as claimed): replace(old, new) locates old by identity: when old is
\* not itself an element of n.children the call fails and leaves the tree
\* unchanged.
C5_ReplaceByIdentity == [][C5_AbsentStep]_vars

\* ---- C6: helpers ----
C6_InvalidStep ==
    (Called("append") /\ ~IsNode(last'.a) /\ last'.a # None) =>
        /\ last'.raised
        /\ UNCHANGED tree

C6_OnlyNodesOrSlots ==
    \A n \in Nodes : \A i \in 1 .. Len(children[n]) :
        IsNode(children[n][i]) \/ children[n][i] = None

\* C6 (as claimed): append(v, relation?) with a v that is neither a node nor
\* the empty slot fails and leaves the tree unchanged, and nothing but nodes
\* and empty slots is ever an element of n.children.
C6_InvalidChild == [][C6_InvalidStep]_vars /\ []C6_OnlyNodesOrSlots

\* C7 (as claimed): export() returns a record without failing, also on trees
\* with empty slots, holding one entry per unrelated child under `children`
\* and one key per relation name.
C7_Export ==
    (last.op = "export") =>
        /\ ~last.raised
        /\ Len(ret.children) = Len(UnrelatedChildren(last.self))
        /\ DOMAIN ret.rels = {r \in RelNames : relations[last.self][r] # Absent}

\* ---- the expected text of toXml ----
C8_Block(c) == <<<<"relopen", RelTag[rel[c]]>>>> \o XmlOf(c).out \o <<<<"relclose", RelTag[rel[c]]>>>>

RECURSIVE C8_Blocks(_)
C8_Blocks(seq) == IF seq = <<>> THEN <<>> ELSE C8_Block(Head(seq)) \o C8_Blocks(Tail(seq))

C8_Entry(c) == IF c = None \/ c = Zero THEN <<<<"none", "">>>> ELSE XmlOf(c).out

RECURSIVE C8_Entries(_)
C8_Entries(seq) == IF seq = <<>> THEN <<>> ELSE C8_Entry(Head(seq)) \o C8_Entries(Tail(seq))

C8_Text(n, related) ==
    IF children[n] = <<>> /\ related = <<>> THEN <<<<"selfclose", TypeOf[n]>>>>
    ELSE <<<<"open", TypeOf[n]>>>> \o C8_Entries(UnrelatedChildren(n))
         \o C8_Blocks(related) \o <<<<"close", TypeOf[n]>>>>

\* the related children in the order they were appended (their order in
\* n.children)
C8_AsAppended(n) == SelectSeq(children[n], HasRel)

\* the values of the relation names of n, in ascending order of the name
RECURSIVE C8_ByName(_, _)
C8_ByName(n, names) ==
    IF names = {} THEN <<>>
    ELSE LET r == CHOOSE x \in names : \A y \in names : x <= y
         IN  <<relations[n][r]>> \o C8_ByName(n, names \ {r})

\* the relation bookkeeping of n is consistent: no node occurs twice in
\* n.children, every related child is the value of its own relation name, and
\* every relation name of n holds a child of n
C8_WellFormed(n) ==
    /\ \A i, j \in 1 .. Len(children[n]) :
          (IsNode(children[n][i]) /\ children[n][i] = children[n][j]) => i = j
    /\ \A i \in 1 .. Len(children[n]) :
          HasRel(children[n][i]) => relations[n][rel[children[n][i]]] = children[n][i]
    /\ \A r \in RelNames :
          relations[n][r] # Absent =>
              /\ rel[relations[n][r]] = r
              /\ \E i \in 1 .. Len(children[n]) : children[n][i] = relations[n][r]

\* C8 (as claimed): on a node whose relation bookkeeping is consistent, the
\* text holds the unrelated entries in sequence order, then the relation
\* blocks in the order in which the children were appended.
C8_AppendOrder ==
    (last.op = "toXml" /\ ~last.raised /\ C8_WellFormed(last.self)) =>
        ret = C8_Text(last.self, C8_AsAppended(last.self))

\* C8 (amended): the text holds the unrelated entries in sequence order
\* (an empty slot as <none/>), then one block per relation name of the node in
\* ascending order of the relation name, each tagged with the marker of the
\* child it holds; a node with no children and no relations is self-closing.
C8_NameOrder ==
    (last.op = "toXml" /\ ~last.raised) =>
        ret = C8_Text(last.self,
                      C8_ByName(last.self, {r \in RelNames : relations[last.self][r] # Absent}))

\* C8 witness: toXml of a node whose two related children were appended in
\* descending order of their relation names
C8_Witness ==
    /\ last.op = "toXml" /\ ~last.raised
    /\ Len(children[last.self]) = 2
    /\ HasRel(children[last.self][1]) /\ HasRel(children[last.self][2])
    /\ rel[children[last.self][1]] > rel[children[last.self][2]]
    /\ \A i \in 1 .. 2 : relations[last.self][rel[children[last.self][i]]] = children[last.self][i]

\* ---- C9: helpers ----
C9_Consistent(n) ==
    \A i \in 1 .. Len(children[n]) :
        HasRel(children[n][i]) => relations[n][rel[children[n][i]]] = children[n][i]

\* C9 (as claimed): toXml fails whenever a child of n is marked related under
\* r while n.relations[r] is not that same node, and does not fail when every
\* related child in the tree is the value of its own relation name.
C9_ConsistencyCheck ==
    (last.op = "toXml") =>
        /\ ~C9_Consistent(last.self) => last.raised
        /\ (\A m \in ReachFrom({last.self}) : C9_Consistent(m)) => ~last.raised

\* ---- C10: helpers ----
C10_Holds(n, c) == \E i \in 1 .. Len(children[n]) : children[n][i] = c

\* C10 (as claimed): every node c that is an element of n.children, and of no
\* other node's children, has c.parent = n.
C10_ParentBackReference ==
    \A n \in Nodes : \A c \in Nodes :
        (C10_Holds(n, c) /\ \A m \in Nodes \ {n} : ~C10_Holds(m, c)) => parent[c] = n

====
